---- MODULE Spec2Model ----
(***************************************************************************)
(* State-machine model of brainbit_streamer.py: the processing loop of     *)
(* main() (connect, personal baseline, ongoing measurement, shutdown) and  *)
(* the ControlServer thread that sets stop_event.                          *)
(*                                                                         *)
(* Samples are identified by their global arrival index (1, 2, 3, ...); a  *)
(* frame, the buffer and a window are sequences of such indices (the       *)
(* columns of the 2-D arrays of the code).                                 *)
(* Real quantities are fixed-point integers: z-scores of the veto policy   *)
(* in tenths, raw ratios and their baseline in thousandths, durations in   *)
(* ticks of 0.05 s.                                                        *)
(***************************************************************************)
EXTENDS Integers, Sequences, FiniteSets

VARIABLES
    pc,               \* position of main(): see the actions below
    sleep_site,       \* which call of sleep_until is running
    t,                \* sleep_until: local t (ticks slept so far)
    attempt,          \* connect_with_retries: loop variable i
    shim,             \* "None" | "streaming" | "released"
    stop_event,       \* threading.Event shared with ControlServer
    lpc,              \* ControlServer.run: "run" | "closed" (self.sock closed)
    inbox,            \* datagrams sent to the control port, not yet received
    udp,              \* the metrics socket of main(): "open" | "closed"
    buf,              \* main: buf (internal rolling buffer)
    arrived,          \* number of samples delivered by the board so far
    win,              \* the window being processed (data and what the
                      \* external cleaning / band decomposition makes of it)
    windows,          \* every window returned by consume_oldest, in order,
                      \* with the loop and the value of stop_event at that time
    taken,            \* main: taken
    nraws,            \* main: len(raws)
    baseline_windows, \* main: baseline_windows
    stats_kind,       \* which branch of the baseline statistics was taken
    mu_raw,           \* baseline centre of the raw ratio (thousandths)
    sigma_raw,        \* baseline spread of the raw ratio (thousandths)
    veto_mode,        \* args.veto_mode
    veto_thr,         \* args.veto_z (tenths)
    max_consec_veto,  \* max(0, args.max_consec_veto)
    consec_veto,      \* main: consec_veto
    tentative,        \* main: veto as the mode rule computes it (lines 340-348),
                      \* before the limit on consecutive vetoes
    sent,             \* datagrams sent on the metrics socket, in order
    ex,               \* exception that reached the handler of line 410
    probe             \* inputs / results of the score function under ScoreSpec

vars == <<pc, sleep_site, t, attempt, shim, stop_event, lpc, inbox, udp, buf, arrived,
          win, windows, taken, nraws, baseline_windows, stats_kind, mu_raw,
          sigma_raw, veto_mode, veto_thr, max_consec_veto, consec_veto, tentative,
          sent, ex, probe>>

---------------------------------------------------------------------------
(* Program constants *)

WINDOW_SEC == 5
BASELINE_SEC == 30
\* LOGISTIC_GAIN = 1.2, in tenths
LOGISTIC_GAIN == 12
\* 1 s in ticks of 0.05 s (the shortest duration of the code, line 309)
TICKS_PER_SEC == 20
\* sleep_until's default step, 0.2 s
SLEEP_STEP == 4
\* connect_with_retries(retries=3, pause=3)
RETRIES == 3
PAUSE_SEC == 3
\* sleep_until(0.2, ...) of the baseline loop
BASELINE_WAIT == 4
\* sleep_until(0.05, ...) of the measurement loop
MEASURE_WAIT == 1
\* --veto-z default 3.0, in tenths
VETO_Z_DEFAULT == 30
\* math.exp raises OverflowError above ln(DBL_MAX) = 709.78..., in hundredths
EXP_OVERFLOW == 70978

(* Bounds of the model *)

\* sampling rate of the board (samples per second)
SampleRate == 1
\* the board delivers at most MaxArrive * needed samples in a run
MaxArrive == 9

Max(a, b) == IF a >= b THEN a ELSE b
Min(a, b) == IF a <= b THEN a ELSE b

sr == SampleRate
needed == sr * WINDOW_SEC
keep_cols == needed * 4
baseline_timebox == baseline_windows * 8

---------------------------------------------------------------------------
(* The rolling buffer: append_buffer and consume_oldest *)

NoneBuf == [isNone |-> TRUE, cols |-> <<>>]
ArrayOf(c) == [isNone |-> FALSE, cols |-> c]

Tail_n(s, n) == SubSeq(s, Len(s) - n + 1, Len(s))

\* faulty variant: the truncation keeps the first max_keep columns (out[:, :max_keep])
append_buffer_keeps_oldest(b, nw, max_keep) ==
    IF Len(nw) = 0
    THEN (IF ~b.isNone THEN b ELSE ArrayOf(<<>>))
    ELSE LET out == IF b.isNone \/ Len(b.cols) = 0 THEN nw ELSE b.cols \o nw
         IN  ArrayOf(IF Len(out) > max_keep THEN SubSeq(out, 1, max_keep) ELSE out)

\* faulty variant: the frame is put before the buffer (concatenate([new, buf]))
append_buffer_prepends(b, nw, max_keep) ==
    IF Len(nw) = 0
    THEN (IF ~b.isNone THEN b ELSE ArrayOf(<<>>))
    ELSE LET out == IF b.isNone \/ Len(b.cols) = 0 THEN nw ELSE nw \o b.cols
         IN  ArrayOf(IF Len(out) > max_keep THEN Tail_n(out, max_keep) ELSE out)

append_buffer(b, nw, max_keep) ==
    IF Len(nw) = 0
    THEN (IF ~b.isNone THEN b ELSE ArrayOf(<<>>))
    ELSE LET out == IF b.isNone \/ Len(b.cols) = 0 THEN nw ELSE b.cols \o nw
         IN  ArrayOf(IF Len(out) > max_keep THEN Tail_n(out, max_keep) ELSE out)

\* faulty variant: the remainder starts one column early (buf[:, n-1:])
consume_oldest_overlap(b, n) ==
    [window |-> SubSeq(b.cols, 1, n),
     rem    |-> ArrayOf(SubSeq(b.cols, n, Len(b.cols)))]

consume_oldest(b, n) ==
    [window |-> SubSeq(b.cols, 1, n),
     rem    |-> ArrayOf(SubSeq(b.cols, n + 1, Len(b.cols)))]

\* shim.get_board_data(): everything that arrived since the last call
FrameSizes == {0, needed - 2, keep_cols + 1}
Frame(n) == [i \in 1..n |-> arrived + i]

\* "buf is None or buf.size == 0 or buf.shape[1] < needed"
NotEnough(b) == b.isNone \/ Len(b.cols) = 0 \/ Len(b.cols) < needed

---------------------------------------------------------------------------
(* What the external cleaning / band decomposition makes of a window.      *)
(*   q = "nonfinite": non-finite samples (after cleaning, or raw data)     *)
(*   q = "badbands" : a band power is non-finite or <= 0                   *)
(*   q = "rawinf"   : bands finite and positive, beta/(alpha+theta+EPS)    *)
(*                    overflows (beta is huge, and so is the total power)  *)
(*   q = "fault"    : clean_window / get_bands raises BrainFlowError       *)
(*   q = "ok"       : bands finite and positive, raw ratio finite          *)
(* zg, zt: z_gamma and z_total of the window (tenths); raw: the raw ratio  *)
(* (thousandths).                                                          *)

\* (z_gamma, z_total) around the thresholds of both veto modes
ZPairs == {<<0, 0>>, <<30, 30>>, <<0, 35>>, <<40, 0>>, <<42, 0>>,
           <<25, 41>>, <<26, 41>>, <<26, 40>>}
\* z_total of a window whose total power is huge
ZHuge == 41
RawRatios == {400, 1000, 1500}

Kind(q, zg, zt, raw) == [q |-> q, zg |-> zg, zt |-> zt, raw |-> raw]

BaselineKinds ==
    {Kind(q, 0, 0, 1000) : q \in {"nonfinite", "badbands", "rawinf", "fault", "ok"}}

MeasureKinds ==
    {Kind(q, 0, 0, 1000) : q \in {"nonfinite", "badbands", "fault"}}
    \cup {Kind("rawinf", zg, ZHuge, 1000) : zg \in {0, 42}}
    \cup {Kind("ok", z[1], z[2], 1000) : z \in ZPairs}
    \cup {Kind("ok", 0, 0, raw) : raw \in RawRatios}

NoWin == [cols |-> <<>>, kind |-> Kind("none", 0, 0, 0)]

\* the window fails one of the validity checks made before the veto
\* (lines 235-247, 319-331)
InvalidData(k) == k.q \in {"nonfinite", "badbands"}

---------------------------------------------------------------------------
(* Baseline statistics: which estimator lines 272-282 select *)

\* faulty variant: the floor of 3 windows is missing from the first test
BaselineStatsKind_no_floor(n, bw) ==
    IF n >= bw \div 2 THEN "standard"
    ELSE IF n >= 3 THEN "robust"
    ELSE "fail"

\* faulty variant: two accepted windows are enough for the robust statistics
BaselineStatsKind_two_suffice(n, bw) ==
    IF n >= Max(3, bw \div 2) THEN "standard"
    ELSE IF n >= 2 THEN "robust"
    ELSE "fail"

BaselineStatsKind(n, bw) ==
    IF n >= Max(3, bw \div 2) THEN "standard"
    ELSE IF n >= 3 THEN "robust"
    ELSE "fail"

\* (mu_raw, sigma_raw) that mean_std / robust_mean_std may return, in
\* thousandths; both floor sigma at EPS, and every value here is above it
BaselineChoices == {[mu |-> 1000, sigma |-> 500], [mu |-> 1000, sigma |-> 1]}

---------------------------------------------------------------------------
(* Artefact veto (lines 340-364) *)

\* faulty variant: lenient mode vetoes on the total power alone
VetoRule_no_corroboration(mode, zg, zt, thr) ==
    IF mode = "strict" THEN (zg > thr) \/ (zt > thr)
    ELSE IF mode = "lenient"
         THEN (zg > thr + 10) \/ (zt > thr + 10)
         ELSE FALSE

VetoRule(mode, zg, zt, thr) ==
    IF mode = "strict" THEN (zg > thr) \/ (zt > thr)
    ELSE IF mode = "lenient"
         THEN (zg > thr + 10) \/ ((zt > thr + 10) /\ (zg > thr - 5))
         ELSE FALSE

\* faulty variant: no limit on consecutive vetoes
LimitVeto_unlimited(v, consec, maxc) == v

\* faulty variant: the limit is compared with > instead of >=
LimitVeto_off_by_one(v, consec, maxc) == v /\ ~(consec > maxc)

\* "if veto and consec_veto >= max_consec_veto: veto = False"
LimitVeto(v, consec, maxc) == v /\ ~(consec >= maxc)

---------------------------------------------------------------------------
(* Concentration score (lines 373-376 and sigmoid, lines 40-41).           *)
(* z = (raw - mu_raw) / max(sigma_raw, EPS) is kept as the fraction        *)
(* zn / zd, and x = LOGISTIC_GAIN * z as xn / (10 * zd).                   *)

\* 1000 * ln(p / (1 - p)) for p = (k - 0.5) / 100, k = 1..100, rounded up:
\* round(100 * sigmoid(x)) >= k  iff  x >= LOGIT[k] / 1000
LOGIT ==
    << -5293, -4184, -3663, -3316, -3055, -2843, -2666, -2512, -2376, -2254,
       -2142, -2040, -1945, -1857, -1774, -1695, -1621, -1550, -1482, -1417,
       -1355, -1295, -1236, -1180, -1125, -1072, -1020,  -969,  -919,  -871,
        -823,  -776,  -730,  -685,  -641,  -597,  -553,  -510,  -468,  -426,
        -384,  -343,  -302,  -261,  -220,  -180,  -140,  -100,   -60,   -20,
          21,    61,   101,   141,   181,   221,   262,   303,   344,   385,
         427,   469,   511,   554,   598,   642,   686,   731,   777,   824,
         872,   920,   970,  1021,  1073,  1126,  1181,  1237,  1296,  1356,
        1418,  1483,  1551,  1622,  1696,  1775,  1858,  1946,  2041,  2143,
        2255,  2377,  2513,  2667,  2844,  3056,  3317,  3664,  4185,  5294 >>

\* math.exp(-x) raises OverflowError when -x > ln(DBL_MAX)
sigmoid_raises(xn, zd) == (0 - xn) * 10 > EXP_OVERFLOW * zd

\* int(round(100.0 * sigmoid(x)))
round100_sigmoid(xn, zd) ==
    Cardinality({k \in 1..100 : xn * 100 >= LOGIT[k] * zd})

ScoreOf(raw, mu, sigma) ==
    LET zn == raw - mu
        zd == sigma
        xn == LOGISTIC_GAIN * zn
    IN  IF sigmoid_raises(xn, zd)
        THEN [raised |-> TRUE, score |-> 0]
        ELSE [raised |-> FALSE,
              score  |-> Max(0, Min(100, round100_sigmoid(xn, zd)))]

---------------------------------------------------------------------------
(* Initial state: main() up to line 178, ControlServer constructed and     *)
(* started.                                                                *)

\* command lines: --veto-mode, --max-consec-veto and --veto-z (tenths)
Args ==
    {[veto_mode |-> "off",     max_consec_veto |-> 1,  veto_z |-> VETO_Z_DEFAULT],
     [veto_mode |-> "strict",  max_consec_veto |-> 1,  veto_z |-> VETO_Z_DEFAULT],
     [veto_mode |-> "lenient", max_consec_veto |-> -1, veto_z |-> VETO_Z_DEFAULT],
     [veto_mode |-> "lenient", max_consec_veto |-> 1,  veto_z |-> 25]}
\* one command line, with the veto switched off
VetoOffArgs ==
    {[veto_mode |-> "off", max_consec_veto |-> 1, veto_z |-> VETO_Z_DEFAULT]}

NoProbe == [raw1 |-> 0, raw2 |-> 0, done |-> FALSE,
            s1 |-> [raised |-> FALSE, score |-> 0],
            s2 |-> [raised |-> FALSE, score |-> 0]]

Msg(type, n) == [type |-> type, n |-> n]

\* the state when the try block of main() is entered, for a command line in
\* A, the datagrams of a sequence in I on their way to the control port, and
\* a baseline target max(1, BASELINE_SEC // WINDOW_SEC) in B
InitFor(A, I, B) ==
    /\ pc = "connect"
    /\ sleep_site = "none"
    /\ t = 0
    /\ attempt = 1
    /\ shim = "None"
    /\ stop_event = FALSE
    /\ lpc = "run"
    /\ inbox \in I
    /\ udp = "open"
    /\ buf = NoneBuf
    /\ arrived = 0
    /\ win = NoWin
    /\ windows = <<>>
    /\ taken = 0
    /\ nraws = 0
    /\ baseline_windows \in B
    /\ stats_kind = "none"
    /\ mu_raw = 0
    /\ sigma_raw = 0
    /\ \E args \in A :
          /\ veto_mode = args.veto_mode
          /\ max_consec_veto = Max(0, args.max_consec_veto)
          /\ veto_thr = args.veto_z
    /\ consec_veto = 0
    /\ tentative = FALSE
    /\ sent = <<>>
    /\ ex = "none"
    /\ probe = NoProbe

\* the run of the program as built: one shutdown command is sent to it, at
\* any time or never
InitWith(A) ==
    InitFor(A, {<<"shutdown">>}, {Max(1, BASELINE_SEC \div WINDOW_SEC)})

Init == InitWith(Args)

---------------------------------------------------------------------------
(* ControlServer.run (lines 93-109) *)

Datagrams == {"shutdown", "not_json", "non_object", "other_cmd"}

\* faulty variant: any JSON object with a "cmd" key sets the event
Shutdown_any_cmd(d) == d \in {"shutdown", "other_cmd"}

\* lines 98-99: json.loads raises on "not_json" (caught at line 104), the
\* isinstance test fails on "non_object", the cmd test on "other_cmd"
Shutdown(d) == d = "shutdown"

\* faulty variant: "while True"
ListenerContinue_forever == TRUE

\* the loop condition of line 95
ListenerContinue == ~stop_event

\* one iteration of "while not self.stop_event.is_set()": recvfrom returns
\* the next datagram; only {"cmd": "shutdown"} sets the event. (A recvfrom
\* that times out after 0.5 s changes nothing: a stuttering step.)
ControlRecv ==
    /\ lpc = "run"
    /\ ListenerContinue
    /\ inbox # <<>>
    /\ inbox' = Tail(inbox)
    /\ stop_event' = (stop_event \/ Shutdown(Head(inbox)))
    /\ UNCHANGED <<pc, sleep_site, t, attempt, shim, lpc, buf,
                   arrived, win, windows, taken, nraws, baseline_windows,
                   stats_kind, mu_raw, sigma_raw, veto_mode, veto_thr,
                   max_consec_veto, consec_veto, tentative, sent, ex, probe,
                   udp>>

\* the loop condition fails: self.sock.close() (lines 106-109)
ControlClose ==
    /\ lpc = "run"
    /\ ~ListenerContinue
    /\ lpc' = "closed"
    /\ UNCHANGED <<pc, sleep_site, t, attempt, shim, stop_event, buf,
                   arrived, win, windows, taken, nraws, baseline_windows,
                   stats_kind, mu_raw, sigma_raw, veto_mode, veto_thr,
                   max_consec_veto, consec_veto, tentative, sent, ex, probe, inbox,
                   udp>>

---------------------------------------------------------------------------
(* sleep_until (lines 111-120), one loop iteration per step *)

SleepSeconds ==
    CASE sleep_site = "connect"  -> PAUSE_SEC * TICKS_PER_SEC
      [] sleep_site = "baseline" -> BASELINE_WAIT
      [] sleep_site = "measure"  -> MEASURE_WAIT
      [] sleep_site = "pace"     -> Max(0, WINDOW_SEC * TICKS_PER_SEC - 1)
      [] OTHER                   -> 0

\* faulty variant: sleep_until does not look at the event while it sleeps
SleepNeverWakes == FALSE

\* sleep_until's check inside the loop: "if stop_event.is_set(): return True"
SleepWakes == stop_event

\* what the caller does with the value sleep_until returns
SleepReturn(r) ==
    /\ t' = 0
    /\ sleep_site' = "none"
    /\ CASE sleep_site = "connect" ->
              \* line 192: break on True; after the loop, raise RuntimeError
              IF r \/ attempt = RETRIES
              THEN /\ pc' = "except"
                   /\ ex' = "RuntimeError: Unable to prepare session"
                   /\ UNCHANGED attempt
              ELSE /\ pc' = "connect"
                   /\ attempt' = attempt + 1
                   /\ UNCHANGED ex
         [] sleep_site = "baseline" ->
              \* line 225: break on True, else continue
              /\ pc' = IF r THEN "b_stats" ELSE "b_loop"
              /\ UNCHANGED <<attempt, ex>>
         [] sleep_site = "measure" ->
              \* line 309: break on True, else continue
              /\ pc' = IF r THEN "finally" ELSE "m_loop"
              /\ UNCHANGED <<attempt, ex>>
         [] OTHER ->
              \* line 405: the value is not used
              /\ pc' = "m_loop"
              /\ UNCHANGED <<attempt, ex>>

SleepUntil ==
    /\ pc = "sleep"
    /\ IF t < SleepSeconds
       THEN IF SleepWakes
            THEN SleepReturn(TRUE)
            ELSE /\ t' = t + Min(SLEEP_STEP, SleepSeconds - t)
                 /\ UNCHANGED <<pc, sleep_site, attempt, ex>>
       ELSE SleepReturn(stop_event)
    /\ UNCHANGED <<shim, stop_event, lpc, buf, arrived, win, windows,
                   taken, nraws, baseline_windows, stats_kind, mu_raw,
                   sigma_raw, veto_mode, veto_thr, max_consec_veto,
                   consec_veto, tentative, sent, probe, inbox,
                   udp>>

---------------------------------------------------------------------------
(* connect_with_retries and the start of the stream (lines 181-207) *)

Connect ==
    /\ pc = "connect"
    /\ \E ok \in BOOLEAN :
          IF ok
          THEN /\ shim' = "streaming"
               /\ pc' = "b_loop"
               /\ UNCHANGED <<sleep_site, t>>
          ELSE /\ pc' = "sleep"
               /\ sleep_site' = "connect"
               /\ t' = 0
               /\ UNCHANGED shim
    /\ UNCHANGED <<attempt, stop_event, lpc, buf, arrived, win, windows,
                   taken, nraws, baseline_windows, stats_kind, mu_raw,
                   sigma_raw, veto_mode, veto_thr, max_consec_veto,
                   consec_veto, tentative, sent, ex, probe, inbox,
                   udp>>

---------------------------------------------------------------------------
(* Reading the board and cutting windows, shared by both loops *)

\* new = shim.get_board_data(); if new.size > 0: buf = append_buffer(...)
\* The call is outside any try block of the loops (lines 220, 304): when it
\* raises BrainFlowError, the handler of line 410 gets it.
Accumulate(next_pc) ==
    \/ \E n \in FrameSizes :
          /\ arrived + n <= MaxArrive * needed
          /\ arrived' = arrived + n
          /\ buf' = IF n > 0 THEN append_buffer(buf, Frame(n), keep_cols) ELSE buf
          /\ pc' = next_pc
          /\ UNCHANGED ex
    \/ /\ ex' = "BrainFlowError: get_board_data"
       /\ pc' = "except"
       /\ UNCHANGED <<arrived, buf>>

\* window, buf = consume_oldest(buf, needed), on a window of kind k
Consume(phase, k) ==
    LET r == consume_oldest(buf, needed)
    IN  /\ win' = [cols |-> r.window, kind |-> k]
        /\ buf' = r.rem
        /\ windows' = Append(windows, [phase |-> phase, cols |-> r.window,
                                       stopped |-> stop_event])

---------------------------------------------------------------------------
(* Personal baseline (lines 209-294) *)

\* faulty variant: the loop condition does not test the event
BaselineContinue_ignores_stop ==
    nraws < baseline_windows /\ taken < baseline_timebox

\* faulty variant: the loop condition does not test the target
BaselineContinue_no_target ==
    taken < baseline_timebox /\ ~stop_event

\* faulty variant: the attempt budget is compared with <= instead of <
BaselineContinue_budget_off_by_one ==
    nraws < baseline_windows /\ taken <= baseline_timebox /\ ~stop_event

\* the loop condition of line 218
BaselineContinue ==
    nraws < baseline_windows /\ taken < baseline_timebox /\ ~stop_event

BaselineAccumulate ==
    /\ pc = "b_loop"
    /\ BaselineContinue
    /\ Accumulate("b_try")
    /\ UNCHANGED <<sleep_site, t, attempt, shim, stop_event, lpc, win, windows,
                   taken, nraws, baseline_windows, stats_kind, mu_raw,
                   sigma_raw, veto_mode, veto_thr, max_consec_veto,
                   consec_veto, tentative, sent, probe, inbox,
                   udp>>

BaselineExit ==
    /\ pc = "b_loop"
    /\ ~BaselineContinue
    /\ pc' = "b_stats"
    /\ UNCHANGED <<sleep_site, t, attempt, shim, stop_event, lpc, buf,
                   arrived, win, windows, taken, nraws, baseline_windows,
                   stats_kind, mu_raw, sigma_raw, veto_mode, veto_thr,
                   max_consec_veto, consec_veto, tentative, sent, ex, probe, inbox,
                   udp>>

BaselineTryConsume ==
    /\ pc = "b_try"
    /\ IF NotEnough(buf)
       THEN /\ pc' = "sleep"
            /\ sleep_site' = "baseline"
            /\ t' = 0
            /\ UNCHANGED <<buf, win, windows, taken>>
       ELSE /\ \E k \in BaselineKinds : Consume("baseline", k)
            /\ taken' = taken + 1
            /\ pc' = "b_proc"
            /\ UNCHANGED <<sleep_site, t>>
    /\ UNCHANGED <<attempt, shim, stop_event, lpc, arrived, nraws,
                   baseline_windows, stats_kind, mu_raw, sigma_raw, veto_mode,
                   veto_thr, max_consec_veto, consec_veto, tentative, sent,
                   ex, probe, inbox,
                   udp>>

\* lines 232-266
BaselineProcess ==
    /\ pc = "b_proc"
    /\ win' = NoWin
    /\ CASE win.kind.q = "fault" ->
              \* no handler inside the loop: the handler of line 410 gets it
              /\ ex' = "BrainFlowError"
              /\ pc' = "except"
              /\ UNCHANGED <<nraws, sent>>
         [] win.kind.q \in {"nonfinite", "badbands", "rawinf"} ->
              /\ pc' = "b_loop"
              /\ UNCHANGED <<nraws, sent, ex>>
         [] OTHER ->
              /\ nraws' = nraws + 1
              /\ sent' = Append(sent, Msg("baseline_progress", nraws + 1))
              /\ pc' = "b_loop"
              /\ UNCHANGED ex
    /\ UNCHANGED <<sleep_site, t, attempt, shim, stop_event, lpc, buf,
                   arrived, windows, taken, baseline_windows, stats_kind,
                   mu_raw, sigma_raw, veto_mode, veto_thr, max_consec_veto,
                   consec_veto, tentative, probe, inbox,
                   udp>>

\* lines 268-300
BaselineStats ==
    /\ pc = "b_stats"
    /\ stats_kind' = BaselineStatsKind(nraws, baseline_windows)
    /\ IF stats_kind' = "fail"
       THEN /\ ex' = "RuntimeError: Baseline collection failed"
            /\ pc' = "except"
            /\ UNCHANGED <<mu_raw, sigma_raw, sent, consec_veto>>
       ELSE /\ \E b \in BaselineChoices :
                  /\ mu_raw' = b.mu
                  /\ sigma_raw' = b.sigma
            /\ sent' = Append(sent, Msg("baseline_ready", 0))
            /\ consec_veto' = 0
            /\ pc' = "m_loop"
            /\ UNCHANGED ex
    /\ UNCHANGED <<sleep_site, t, attempt, shim, stop_event, lpc, buf,
                   arrived, win, windows, taken, nraws, baseline_windows,
                   veto_mode, veto_thr, max_consec_veto, tentative, probe, inbox,
                   udp>>

---------------------------------------------------------------------------
(* Ongoing measurement (lines 302-408) *)

\* faulty variant: "while True"
MeasureContinue_ignores_stop == TRUE

\* the loop condition of line 302
MeasureContinue == ~stop_event

MeasureAccumulate ==
    /\ pc = "m_loop"
    /\ MeasureContinue
    /\ Accumulate("m_try")
    /\ UNCHANGED <<sleep_site, t, attempt, shim, stop_event, lpc, win, windows,
                   taken, nraws, baseline_windows, stats_kind, mu_raw,
                   sigma_raw, veto_mode, veto_thr, max_consec_veto,
                   consec_veto, tentative, sent, probe, inbox,
                   udp>>

MeasureExit ==
    /\ pc = "m_loop"
    /\ ~MeasureContinue
    /\ pc' = "finally"
    /\ UNCHANGED <<sleep_site, t, attempt, shim, stop_event, lpc, buf,
                   arrived, win, windows, taken, nraws, baseline_windows,
                   stats_kind, mu_raw, sigma_raw, veto_mode, veto_thr,
                   max_consec_veto, consec_veto, tentative, sent, ex, probe, inbox,
                   udp>>

MeasureTryConsume ==
    /\ pc = "m_try"
    /\ IF NotEnough(buf)
       THEN /\ pc' = "sleep"
            /\ sleep_site' = "measure"
            /\ t' = 0
            /\ UNCHANGED <<buf, win, windows>>
       ELSE /\ \E k \in MeasureKinds : Consume("measure", k)
            /\ pc' = "m_proc"
            /\ UNCHANGED <<sleep_site, t>>
    /\ UNCHANGED <<attempt, shim, stop_event, lpc, arrived, taken, nraws,
                   baseline_windows, stats_kind, mu_raw, sigma_raw, veto_mode,
                   veto_thr, max_consec_veto, consec_veto, tentative, sent,
                   ex, probe, inbox,
                   udp>>

\* lines 316-408
MeasureProcess ==
    /\ pc = "m_proc"
    /\ win' = NoWin
    /\ LET k  == win.kind
           v0 == VetoRule(veto_mode, k.zg, k.zt, veto_thr)
           v  == LimitVeto(v0, consec_veto, max_consec_veto)
           sc == ScoreOf(k.raw, mu_raw, sigma_raw)
       IN
       CASE k.q = "fault" ->
              \* except BrainFlowError (line 407): logged, next iteration
              /\ pc' = "m_loop"
              /\ UNCHANGED <<sleep_site, t, consec_veto, tentative, sent, ex>>
         [] InvalidData(k) ->
              \* lines 319-331: discarded
              /\ pc' = "m_loop"
              /\ UNCHANGED <<sleep_site, t, consec_veto, tentative, sent, ex>>
         [] OTHER ->
              /\ tentative' = v0
              /\ IF v
                 THEN \* lines 353-362
                      /\ consec_veto' = consec_veto + 1
                      /\ sent' = Append(sent, Msg("veto", 0))
                      /\ pc' = "m_loop"
                      /\ UNCHANGED <<sleep_site, t, ex>>
                 ELSE /\ consec_veto' = 0
                      /\ IF k.q = "rawinf"
                         THEN \* lines 369-371: discarded
                              /\ pc' = "m_loop"
                              /\ UNCHANGED <<sleep_site, t, sent, ex>>
                         ELSE IF sc.raised
                         THEN \* OverflowError out of sigmoid: line 410
                              /\ ex' = "OverflowError"
                              /\ pc' = "except"
                              /\ UNCHANGED <<sleep_site, t, sent>>
                         ELSE \* lines 378-405
                              /\ sent' = Append(sent,
                                                Msg("concentration", sc.score))
                              /\ pc' = "sleep"
                              /\ sleep_site' = "pace"
                              /\ t' = 0
                              /\ UNCHANGED ex
    /\ UNCHANGED <<attempt, shim, stop_event, lpc, buf, arrived, windows,
                   taken, nraws, baseline_windows, stats_kind, mu_raw,
                   sigma_raw, veto_mode, veto_thr, max_consec_veto, probe, inbox,
                   udp>>

---------------------------------------------------------------------------
(* except Exception (lines 410-413) and finally (lines 414-422) *)

Except ==
    /\ pc = "except"
    /\ pc' = "finally"
    /\ UNCHANGED <<sleep_site, t, attempt, shim, stop_event, lpc, buf,
                   arrived, win, windows, taken, nraws, baseline_windows,
                   stats_kind, mu_raw, sigma_raw, veto_mode, veto_thr,
                   max_consec_veto, consec_veto, tentative, sent, ex, probe, inbox,
                   udp>>

Finally ==
    /\ pc = "finally"
    /\ shim' = IF shim # "None" THEN "released" ELSE shim
    /\ pc' = "done"
    /\ UNCHANGED <<sleep_site, t, attempt, stop_event, lpc, buf,
                   arrived, win, windows, taken, nraws, baseline_windows,
                   stats_kind, mu_raw, sigma_raw, veto_mode, veto_thr,
                   max_consec_veto, consec_veto, tentative, sent, ex, probe, inbox,
                   udp>>

---------------------------------------------------------------------------
(* The program: main() and the ControlServer thread interleaved *)

Main ==
    \/ Connect
    \/ SleepUntil
    \/ BaselineAccumulate
    \/ BaselineExit
    \/ BaselineTryConsume
    \/ BaselineProcess
    \/ BaselineStats
    \/ MeasureAccumulate
    \/ MeasureExit
    \/ MeasureTryConsume
    \/ MeasureProcess
    \/ Except
    \/ Finally

Control ==
    \/ ControlRecv
    \/ ControlClose

Next == Main \/ Control

Spec == Init /\ [][Next]_vars

\* main() is a running thread: it is always scheduled again, and every
\* external call it makes returns. The veto policy plays no part in the
\* cancellation: the run is that of the command line with the veto off.
FairSpec == InitWith(VetoOffArgs) /\ [][Next]_vars /\ WF_vars(Main)

\* the listener under command traffic: malformed and unrelated datagrams
\* before the shutdown command, and datagrams that follow it
Inboxes == {<<"not_json", "non_object", "other_cmd", "shutdown">>,
            <<"other_cmd", "shutdown", "not_json">>}
ListenerSpec ==
    /\ InitFor(VetoOffArgs, Inboxes, {Max(1, BASELINE_SEC \div WINDOW_SEC)})
    /\ [][Next]_vars

\* the baseline with the target of the program (6 windows, 48 attempts) and
\* with the smallest target, max(1, ...) = 1 (8 attempts)
CalibTargets == {1, Max(1, BASELINE_SEC \div WINDOW_SEC)}
CalibSpec ==
    /\ InitFor(VetoOffArgs, {<<"shutdown">>}, CalibTargets)
    /\ [][Next]_vars

---------------------------------------------------------------------------
(* Specifications for the pure functions: the inputs are drawn by the      *)
(* initial state and the code that computes the function is the only step. *)

\* largest baseline_windows drawn for the statistics selection
MaxTarget == 12

\* the end of the baseline loop with any target and any accepted count
StatsInit ==
    /\ pc = "b_stats"
    /\ sleep_site = "none"
    /\ t = 0
    /\ attempt = 1
    /\ shim = "streaming"
    /\ stop_event = FALSE
    /\ lpc = "run"
    /\ inbox = <<>>
    /\ udp = "open"
    /\ buf = NoneBuf
    /\ arrived = 0
    /\ win = NoWin
    /\ windows = <<>>
    /\ baseline_windows \in 1..MaxTarget
    /\ nraws \in 0..baseline_windows
    /\ taken = nraws
    /\ stats_kind = "none"
    /\ mu_raw = 0
    /\ sigma_raw = 0
    /\ veto_mode = "lenient"
    /\ veto_thr = VETO_Z_DEFAULT
    /\ max_consec_veto = 2
    /\ consec_veto = 0
    /\ tentative = FALSE
    /\ sent = [i \in 1..nraws |-> Msg("baseline_progress", i)]
    /\ ex = "none"
    /\ probe = NoProbe

StatsSpec == StatsInit /\ [][BaselineStats]_vars

\* raw ratios (thousandths) given to the score function
ScoreGrid == {0, 250, 400, 500, 750, 1000, 1250, 1500, 2000}

ScoreInit ==
    /\ pc = "score"
    /\ sleep_site = "none"
    /\ t = 0
    /\ attempt = 1
    /\ shim = "streaming"
    /\ stop_event = FALSE
    /\ lpc = "run"
    /\ inbox = <<>>
    /\ udp = "open"
    /\ buf = NoneBuf
    /\ arrived = 0
    /\ win = NoWin
    /\ windows = <<>>
    /\ baseline_windows = Max(1, BASELINE_SEC \div WINDOW_SEC)
    /\ nraws = baseline_windows
    /\ taken = nraws
    /\ stats_kind = "standard"
    /\ \E b \in BaselineChoices :
          /\ mu_raw = b.mu
          /\ sigma_raw = b.sigma
    /\ veto_mode = "off"
    /\ veto_thr = VETO_Z_DEFAULT
    /\ max_consec_veto = 2
    /\ consec_veto = 0
    /\ tentative = FALSE
    /\ sent = <<>>
    /\ ex = "none"
    /\ \E r1 \in ScoreGrid, r2 \in ScoreGrid :
          probe = [NoProbe EXCEPT !.raw1 = r1, !.raw2 = r2]

\* lines 373-376 on two windows against the same baseline
ScoreProbe ==
    /\ pc = "score"
    /\ ~probe.done
    /\ probe' = [probe EXCEPT !.done = TRUE,
                              !.s1 = ScoreOf(probe.raw1, mu_raw, sigma_raw),
                              !.s2 = ScoreOf(probe.raw2, mu_raw, sigma_raw)]
    /\ UNCHANGED <<pc, sleep_site, t, attempt, shim, stop_event, lpc, buf,
                   arrived, win, windows, taken, nraws, baseline_windows,
                   stats_kind, mu_raw, sigma_raw, veto_mode, veto_thr,
                   max_consec_veto, consec_veto, tentative, sent, ex, inbox,
                   udp>>

ScoreSpec == ScoreInit /\ [][ScoreProbe]_vars

---------------------------------------------------------------------------
(* Helpers of the properties *)

Cols(s) == {s[i] : i \in 1..Len(s)}
Count(s, type) == Cardinality({i \in 1..Len(s) : s[i].type = type})
MeasureWindows == {i \in 1..Len(windows) : windows[i].phase = "measure"}
BaselineWindows == {i \in 1..Len(windows) : windows[i].phase = "baseline"}
Indices(s, types) == {i \in 1..Len(s) : s[i].type \in types}

\* main() has not yet left the baseline (or the connection before it)
InBaselinePhase ==
    \/ pc \in {"connect", "b_loop", "b_try", "b_proc", "b_stats"}
    \/ pc = "sleep" /\ sleep_site \in {"connect", "baseline"}

\* the veto rule as the specification words it (T and the z-scores in tenths)
ClaimedVeto(mode, zg, zt, T) ==
    CASE mode = "off"     -> FALSE
      [] mode = "strict"  -> zg > T \/ zt > T
      [] mode = "lenient" -> zg > T + 10 \/ (zt > T + 10 /\ zg > T - 5)

\* a window the specification calls invalid
WindowInvalid(k) == k.q \in {"nonfinite", "badbands", "rawinf"}

\* main() moves from one of the positions in `from`
MainStepFrom(from) == pc \in from /\ pc' # pc

\* the variables of main() (everything but the listener's and the event)
main_vars == <<pc, sleep_site, t, attempt, shim, udp, buf, arrived, win,
               windows, taken, nraws, baseline_windows, stats_kind, mu_raw,
               sigma_raw, veto_mode, veto_thr, max_consec_veto, consec_veto,
               tentative, sent, ex>>

---------------------------------------------------------------------------
(* C1: every window returned by consume_oldest, in either loop, has        *)
(* exactly `needed` columns, and no sample (arrival index) is in two       *)
(* returned windows. The log only grows, so it is stated of the window     *)
(* returned last against all the earlier ones, in every reachable state.   *)
WindowsFullAndDisjoint ==
    LET n == Len(windows)
    IN  n > 0 =>
           /\ Len(windows[n].cols) = needed
           /\ \A i \in 1..(n - 1) :
                 Cols(windows[i].cols) \cap Cols(windows[n].cols) = {}

\* windows were returned in both loops, after an overflow dropped sample 1
WindowsInBothPhasesAfterDrop ==
    /\ Len(windows) >= 2
    /\ windows[1].phase = "baseline"
    /\ windows[1].cols[1] > 1
    /\ MeasureWindows # {}

(* C2: after every accumulate the buffer holds at most keep_cols =         *)
(* 4 * needed columns, and it holds the most recent columns of the old     *)
(* buffer followed by the frame (an empty frame leaves it as it was).      *)
BufferBoundedKeepsNewest ==
    /\ [](Len(buf.cols) <= 4 * needed)
    /\ [][MainStepFrom({"b_loop", "m_loop"}) /\ pc' \in {"b_try", "m_try"} =>
            LET frame == [i \in 1..(arrived' - arrived) |-> arrived + i]
                all   == buf.cols \o frame
                keep  == Min(keep_cols, Len(all))
            IN  /\ buf'.cols = SubSeq(all, Len(all) - keep + 1, Len(all))
                /\ (Len(frame) = 0 => buf' = buf)]_vars

\* a first frame larger than the capacity arrived into the None buffer and
\* its oldest sample was dropped
OversizeFrameTruncated ==
    /\ pc = "b_try"
    /\ arrived = keep_cols + 1
    /\ Len(buf.cols) = keep_cols
    /\ buf.cols[1] = 2

(* C3: in the measurement loop, a window whose mode rule says veto while   *)
(* consec_veto >= max_consec_veto is accepted (no veto datagram) and the   *)
(* counter is reset to 0; any other veto adds exactly 1 to the counter and *)
(* sends a veto datagram; any accept resets the counter to 0.              *)
VetoLimitForcesAccept ==
    [][MainStepFrom({"m_proc"}) /\ win.kind.q \in {"ok", "rawinf"} =>
         IF tentative' /\ consec_veto >= max_consec_veto
         THEN /\ consec_veto' = 0
              /\ Count(sent', "veto") = Count(sent, "veto")
         ELSE IF tentative'
         THEN /\ consec_veto' = consec_veto + 1
              /\ sent' = Append(sent, Msg("veto", 0))
         ELSE /\ consec_veto' = 0
              /\ Count(sent', "veto") = Count(sent, "veto")]_vars

\* a veto, then a window the rule vetoes again that was let through and scored
ForcedAcceptAfterVeto ==
    /\ max_consec_veto >= 1
    /\ tentative
    /\ consec_veto = 0
    /\ Len(sent) >= 2
    /\ sent[Len(sent)].type = "concentration"
    /\ sent[Len(sent) - 1].type = "veto"

(* C4: once stop_event is set, main() reaches its end from wherever it is, *)
(* and no wait goes on sleeping: with the event set, sleep_until makes no  *)
(* further sleep step.                                                     *)
StopLeadsToExit ==
    /\ stop_event ~> (pc = "done")
    /\ [][stop_event /\ pc = "sleep" /\ pc' = "sleep" => t' = t]_vars

\* a shutdown that arrived after a window was scored, and main() has ended
StoppedAfterScoring ==
    /\ pc = "done"
    /\ stop_event
    /\ ex = "none"
    /\ sent # <<>>
    /\ sent[Len(sent)].type = "concentration"

(* C5 (as amended): at the end of the baseline, for every baseline_windows *)
(* >= 1 and every accepted count, the robust statistics are used exactly   *)
(* when 3 <= accepted < baseline_windows div 2, the standard ones exactly  *)
(* when accepted >= max(3, baseline_windows div 2), and the baseline fails *)
(* exactly when accepted < 3; div is the integer division, rounding down.  *)
StatsSelectionFloorHalf ==
    pc # "b_stats" =>
       LET half == baseline_windows \div 2
       IN  /\ stats_kind = "robust" <=> (3 <= nraws /\ nraws < half)
           /\ stats_kind = "standard" <=> (nraws >= 3 /\ nraws >= half)
           /\ stats_kind = "fail" <=> nraws < 3
           /\ stats_kind = "fail" <=>
                 ex = "RuntimeError: Baseline collection failed"

\* an odd target and an accepted count that reaches the rounded-down half but
\* not the exact half: the standard statistics are used
StandardChosenBelowExactHalf ==
    /\ stats_kind = "standard"
    /\ baseline_windows % 2 = 1
    /\ 2 * nraws < baseline_windows

(* C5 (as claimed): the same with the exact half, baseline_windows / 2,    *)
(* which is not an integer for an odd target: robust exactly when          *)
(* 3 <= accepted and 2 * accepted < baseline_windows.                      *)
StatsSelectionExactHalf ==
    pc # "b_stats" =>
       /\ stats_kind = "robust" <=> (3 <= nraws /\ 2 * nraws < baseline_windows)
       /\ stats_kind = "standard" <=>
             (nraws >= 3 /\ 2 * nraws >= baseline_windows)
       /\ stats_kind = "fail" <=> nraws < 3

VetoRuleAsSpecified ==
    /\ [][MainStepFrom({"m_proc"}) /\ win.kind.q \in {"ok", "rawinf"} =>
            tentative' = ClaimedVeto(veto_mode, win.kind.zg, win.kind.zt,
                                     veto_thr)]_vars
    /\ [](veto_mode = "off" => consec_veto = 0 /\ Count(sent, "veto") = 0)

\* a lenient veto was decided and sent
LenientVetoSent ==
    /\ veto_mode = "lenient"
    /\ tentative
    /\ consec_veto = 1
    /\ sent # <<>>
    /\ sent[Len(sent)].type = "veto"

(* C8: for a fixed baseline the score is always an integer in [0, 100]     *)
(* and is non-decreasing in the raw ratio.                                 *)
ScoreBoundedMonotone ==
    probe.done =>
       /\ ~probe.s1.raised /\ ~probe.s2.raised
       /\ probe.s1.score \in 0..100 /\ probe.s2.score \in 0..100
       /\ (probe.raw1 <= probe.raw2 => probe.s1.score <= probe.s2.score)

(* C9: an invalid window (non-finite samples, invalid bands or non-finite  *)
(* raw ratio) is discarded and the loop goes on: in the baseline it was    *)
(* counted in `taken`, raws is unchanged and nothing is sent; in the       *)
(* measurement loop nothing is sent and consec_veto is not incremented.    *)
InvalidWindowDiscarded ==
    /\ [][MainStepFrom({"b_proc"}) /\ WindowInvalid(win.kind) =>
            /\ pc' = "b_loop"
            /\ taken = Len(windows)
            /\ nraws' = nraws
            /\ sent' = sent]_vars
    /\ [][MainStepFrom({"m_proc"}) /\ WindowInvalid(win.kind) =>
            /\ pc' = "m_loop"
            /\ sent' = sent
            /\ consec_veto' <= consec_veto]_vars

(* C10: a fault raised by the cleaning / band decomposition of one window  *)
(* is recovered in the loop (the window is dropped, the loop goes on), in  *)
(* both loops; the run ends abnormally only after a failed connection or a *)
(* failed baseline.                                                        *)
WindowFaultsRecovered ==
    /\ [][MainStepFrom({"b_proc", "m_proc"}) /\ win.kind.q = "fault" =>
            /\ pc' \in {"b_loop", "m_loop"}
            /\ ex' = ex]_vars
    /\ [](ex \in {"none", "RuntimeError: Unable to prepare session",
                  "RuntimeError: Baseline collection failed"})

(* C11: in the measurement loop a failure of the read of new samples      *)
(* (get_board_data) is logged and the loop goes on: no step from the head  *)
(* of the measurement loop reaches the error handler of the run.           *)
ScoringReadFaultsLogged ==
    [][pc = "m_loop" => pc' # "except" /\ ex' = ex]_vars

(* C12: when main() has ended, on every exit path, the board session is    *)
(* released, the metrics socket is closed and the listener's socket is     *)
(* closed.                                                                 *)
RunEndReleasesAll ==
    pc = "done" =>
       /\ shim # "streaming"
       /\ udp = "closed"
       /\ lpc = "closed"

(* C13: stop_event changes only by a step of the listener that receives a  *)
(* {"cmd": "shutdown"} datagram, and only from unset to set; a datagram    *)
(* that is not valid JSON, not an object or carries another cmd leaves the *)
(* event as it is, leaves the listener running and changes nothing of      *)
(* main().                                                                 *)
SignalOnlyByShutdown ==
    /\ [][stop_event' # stop_event =>
            /\ ~stop_event /\ stop_event'
            /\ lpc = "run" /\ lpc' = "run"
            /\ inbox # <<>> /\ Head(inbox) = "shutdown"
            /\ inbox' = Tail(inbox)
            /\ UNCHANGED main_vars]_vars
    /\ [][inbox' # inbox /\ Head(inbox) # "shutdown" =>
            /\ stop_event' = stop_event
            /\ lpc = "run" /\ lpc' = "run"
            /\ UNCHANGED main_vars]_vars

\* the three kinds of ignored datagram were received while main() went on to
\* the measurement loop, and then the shutdown command set the event
IgnoredDatagramsThenShutdown ==
    /\ stop_event
    /\ inbox = <<>>
    /\ MeasureWindows # {}

(* C14 (as claimed): the listener goes on listening after it set           *)
(* stop_event: setting the event does not end its receive loop or close    *)
(* its socket (the program has no other operation that stops it).          *)
ListenerKeepsListening ==
    [][lpc = "run" => lpc' = "run"]_vars

(* C14 (as amended): once stop_event is set the listener receives no       *)
(* further datagram, and the only step it takes is to leave its loop and   *)
(* close its socket; it never does so while the event is unset.            *)
ListenerStopsOnSignal ==
    /\ [][stop_event => inbox' = inbox]_vars
    /\ [][lpc' # lpc => stop_event /\ lpc = "run" /\ lpc' = "closed"]_vars

\* the listener closed its socket with a datagram still waiting
ClosedWithDatagramWaiting ==
    /\ lpc = "closed"
    /\ inbox # <<>>

(* C15: in the baseline, accepted (nraws) <= target (baseline_windows),    *)
(* consumed (taken) <= attempt budget (8 * target) and accepted <=         *)
(* consumed; a window is consumed only in an iteration that was entered    *)
(* with accepted < target, consumed < budget and the event not seen set;   *)
(* and the loop is left at the first test that finds one of the three      *)
(* false (the loop condition, or the wait for data for the event).         *)
BaselineBudgetRespected ==
    /\ [](/\ nraws <= baseline_windows
          /\ taken <= 8 * baseline_windows
          /\ nraws <= taken)
    /\ [][pc' = "b_try" /\ pc # "b_try" =>
            nraws < baseline_windows /\ taken < 8 * baseline_windows
            /\ ~stop_event]_vars
    /\ [][taken' # taken =>
            /\ pc = "b_try" /\ taken' = taken + 1
            /\ nraws < baseline_windows /\ taken < 8 * baseline_windows]_vars
    /\ [][MainStepFrom({"b_loop"}) /\ ex' = ex /\
            (nraws >= baseline_windows \/ taken >= 8 * baseline_windows
             \/ stop_event) => pc' = "b_stats"]_vars
    /\ [][pc = "sleep" /\ sleep_site = "baseline" /\ stop_event
            /\ pc' # pc => pc' = "b_stats"]_vars

\* the attempt budget was used up without reaching the target
BudgetExhausted ==
    /\ pc = "b_stats"
    /\ taken = 8 * baseline_windows
    /\ nraws < baseline_windows
    /\ ~stop_event

(* C16: the datagrams sent are: baseline_progress with count 1, 2, ...    *)
(* (one per accepted baseline window, never above the target), then at     *)
(* most one baseline_ready, then only veto and concentration, at most one  *)
(* per window consumed by the measurement loop; one datagram at a time.    *)
MessageOrder ==
    /\ [](LET P == Indices(sent, {"baseline_progress"})
              R == Indices(sent, {"baseline_ready"})
              S == Indices(sent, {"veto", "concentration"})
          IN  /\ P \cup R \cup S = 1..Len(sent)
              /\ \A i \in P : sent[i].n = i /\ i <= baseline_windows
              /\ Cardinality(P) = nraws
              /\ Cardinality(P) <= Cardinality(BaselineWindows)
              /\ Cardinality(R) <= 1
              /\ \A i \in R : i = Cardinality(P) + 1
              /\ \A i \in S : R # {} /\ i > Cardinality(P) + 1
              /\ Cardinality(S) <= Cardinality(MeasureWindows))
    /\ [][sent' # sent =>
            /\ Len(sent') = Len(sent) + 1
            /\ SubSeq(sent', 1, Len(sent)) = sent
            /\ pc \in {"b_proc", "b_stats", "m_proc"}]_vars

\* a full run: six progress datagrams, baseline_ready, a veto and a score
FullMessageSequence ==
    /\ Len(sent) = baseline_windows + 3
    /\ sent[baseline_windows].type = "baseline_progress"
    /\ sent[baseline_windows + 1].type = "baseline_ready"
    /\ sent[baseline_windows + 2].type = "veto"
    /\ sent[baseline_windows + 3].type = "concentration"

(* C17: 0 <= consec_veto <= max_consec_veto in every state                 *)
(* (max_consec_veto is max(0, --max-consec-veto)); every veto datagram     *)
(* adds one to consec_veto and only an accepted window resets it, so at    *)
(* most max_consec_veto veto datagrams are sent between two accepted       *)
(* windows; with max_consec_veto = 0 no veto datagram is ever sent.        *)
ConsecVetoBounded ==
    /\ [](0 <= consec_veto /\ consec_veto <= max_consec_veto)
    /\ [](max_consec_veto = 0 => Count(sent, "veto") = 0)
    /\ [][Count(sent', "veto") # Count(sent, "veto") =>
            /\ Count(sent', "veto") = Count(sent, "veto") + 1
            /\ consec_veto' = consec_veto + 1]_vars
    /\ [][consec_veto' < consec_veto =>
            /\ consec_veto' = 0
            /\ pc = "m_proc"
            /\ Count(sent', "veto") = Count(sent, "veto")]_vars

\* with a limit of 0 a window the rule vetoes was let through and scored
ZeroLimitNeverVetoes ==
    /\ max_consec_veto = 0
    /\ veto_mode = "lenient"
    /\ tentative
    /\ sent # <<>>
    /\ sent[Len(sent)].type = "concentration"

(* C18: the buffer is always a run of consecutive arrival indices that     *)
(* ends at the sample that arrived last; the window returned last is       *)
(* `needed` consecutive indices and starts after the end of the window     *)
(* returned before it (the log of windows only grows).                     *)
BufferContiguousSuffix ==
    LET n == Len(windows)
    IN  /\ \A i \in 1..Len(buf.cols) :
              buf.cols[i] = arrived - Len(buf.cols) + i
        /\ n > 0 =>
              \A j \in 1..Len(windows[n].cols) :
                 windows[n].cols[j] = windows[n].cols[1] + j - 1
        /\ n > 1 =>
              windows[n].cols[1] > windows[n - 1].cols[Len(windows[n - 1].cols)]

\* samples were dropped between two windows, and the buffer is not empty
WindowsAcrossDroppedSamples ==
    /\ Len(windows) >= 2
    /\ windows[2].cols[1] > windows[1].cols[needed] + 1
    /\ Len(buf.cols) > 0

(* C19: at most one window, over both loops, is consumed while stop_event  *)
(* is set.                                                                 *)
AtMostOneWindowAfterStop ==
    Cardinality({i \in 1..Len(windows) : windows[i].stopped}) <= 1

\* the event was set between the loop test and the consumption of a window
\* of the measurement loop, and main() has ended
WindowConsumedAfterStop ==
    /\ pc = "done"
    /\ ex = "none"
    /\ \E i \in MeasureWindows : windows[i].stopped

(* C20: once stop_event is set while main() has not left the baseline      *)
(* (baseline_ready not yet sent), the measurement loop never consumes a    *)
(* window and no veto or concentration datagram is ever sent.              *)
StopInBaselineNoScoring ==
    [](stop_event /\ InBaselinePhase =>
          [](/\ MeasureWindows = {}
             /\ Count(sent, "veto") = 0
             /\ Count(sent, "concentration") = 0))

\* stopped during the baseline with enough windows for the statistics:
\* baseline_ready was sent and main() ended without scoring
StoppedInBaselineAfterReady ==
    /\ pc = "done"
    /\ stop_event
    /\ nraws >= 3 /\ nraws < baseline_windows
    /\ taken < 8 * baseline_windows
    /\ Count(sent, "baseline_ready") = 1
    /\ MeasureWindows = {}

====
